---- MODULE Spec2Model ----
(***************************************************************************)
(* A model of the ai_kit Python packages: the retry loops of               *)
(* ReplicateClient.run and GeminiImageClient.generate_images, the process  *)
(* wide kit cache, the temporary audio files of LocalWhisperAdapter, the   *)
(* FixtureAdapter test double with its stream synthesis, and the coercion  *)
(* of vendor outputs by ReplicateClient.                                   *)
(*                                                                         *)
(* Conventions.  A Python str is a sequence of one-character strings.      *)
(* Durations are integers in milliseconds (2.0 s is 2000).  Python's None  *)
(* is the model value None.                                                *)
(***************************************************************************)
EXTENDS Integers, Sequences, FiniteSets, TLC

None == "None"

\* ------------------------------------------------------------------ bounds

\* Largest max_retries given to a client (argument or environment value).
MaxRetriesArg == 2

\* ------------------------------------------------------- string helpers

MinOf(a, b) == IF a <= b THEN a ELSE b
MaxOf(a, b) == IF a >= b THEN a ELSE b

RECURSIVE Pow2(_)
\* 2 ** attempt
Pow2(n) == IF n <= 0 THEN 1 ELSE 2 * Pow2(n - 1)

Digits == {"0", "1", "2", "3", "4", "5", "6", "7", "8", "9"}

DigitVal(c) ==
    CASE c = "0" -> 0 [] c = "1" -> 1 [] c = "2" -> 2 [] c = "3" -> 3
      [] c = "4" -> 4 [] c = "5" -> 5 [] c = "6" -> 6 [] c = "7" -> 7
      [] c = "8" -> 8 [] c = "9" -> 9

\* str.lower() on one character, for the capital letters the messages use.
LowerChar(c) ==
    CASE c = "R" -> "r" [] c = "L" -> "l" [] c = "C" -> "c" [] c = "S" -> "s"
      [] c = "T" -> "t" [] c = "D" -> "d" [] OTHER -> c

\* str.lower()
Lower(s) == [i \in 1..Len(s) |-> LowerChar(s[i])]

\* `lit at position i of s`
StartsAt(s, i, lit) ==
    /\ i >= 1
    /\ i + Len(lit) - 1 <= Len(s)
    /\ SubSeq(s, i, i + Len(lit) - 1) = lit

\* Python's `lit in s`
Contains(s, lit) == \E i \in 1..(Len(s) + 1) : StartsAt(s, i, lit)

\* Length of the longest run of characters of set S starting at position i.
RunLen(s, i, S) ==
    CHOOSE n \in 0..Len(s) :
        /\ \A k \in 0..(n - 1) : i + k <= Len(s) /\ s[i + k] \in S
        /\ ~(i + n <= Len(s) /\ s[i + n] \in S)

\* ------------------------------------------------------------ str literals

S_reset == <<"r", "e", "s", "e", "t">>
S_in == <<" ", "i", "n", " ">>
S_429 == <<"4", "2", "9">>
S_throttl == <<"t", "h", "r", "o", "t", "t", "l">>
S_rate_limit == <<"r", "a", "t", "e", " ", "l", "i", "m", "i", "t">>
S_ssl == <<"s", "s", "l">>
S_tls == <<"t", "l", "s">>
S_bad_record_mac == <<"b", "a", "d", " ", "r", "e", "c", "o", "r", "d", " ", "m", "a", "c">>
S_eof_occurred ==
    <<"e", "o", "f", " ", "o", "c", "c", "u", "r", "r", "e", "d", " ", "i", "n", " ",
      "v", "i", "o", "l", "a", "t", "i", "o", "n", " ", "o", "f", " ",
      "p", "r", "o", "t", "o", "c", "o", "l">>
S_connection_reset ==
    <<"c", "o", "n", "n", "e", "c", "t", "i", "o", "n", " ", "r", "e", "s", "e", "t">>

\* --------------------------------------------------- vendor exceptions

\* An exception object: its class, its `status` and `status_code` attributes
\* (0 when absent or None) and str(exc).
Exc(cls, status, status_code, msg) ==
    [cls |-> cls, status |-> status, status_code |-> status_code, msg |-> msg]

M_boom == <<"b", "o", "o", "m">>
M_RateLimit == <<"R", "a", "t", "e", " ", "L", "i", "m", "i", "t">>
M_throttled == <<"t", "h", "r", "o", "t", "t", "l", "e", "d">>
\* "429 resets in ~5s"
M_hint5 == S_429 \o <<" ">> \o S_reset \o <<"s">> \o S_in \o <<"~", "5", "s">>
\* "429 Reset in 12s"
M_hint12 == S_429 \o <<" ", "R", "e", "s", "e", "t">> \o S_in \o <<"1", "2", "s">>
\* "429 resets in ~\ds": a backslash and the letter d where the number goes
M_hintEscaped == S_429 \o <<" ">> \o S_reset \o <<"s">> \o S_in \o <<"~", "\\", "d", "s">>
M_ConnectionReset ==
    <<"C", "o", "n", "n", "e", "c", "t", "i", "o", "n", " ", "r", "e", "s", "e", "t">>
M_TLS == <<"T", "L", "S", " ", "e", "r", "r", "o", "r">>

\* The failures the vendor SDK call is made to throw.
VendorExceptions ==
    { Exc("Exception", 0, 0, M_boom),
      Exc("ApiError", 429, 0, M_boom),
      Exc("ApiError", 500, 429, M_boom),
      Exc("ApiError", 0, 429, M_boom),
      Exc("Exception", 0, 0, M_RateLimit),
      Exc("Exception", 0, 0, M_throttled),
      Exc("Exception", 0, 0, M_hint5),
      Exc("Exception", 0, 0, M_hint12),
      Exc("Exception", 0, 0, M_hintEscaped),
      Exc("SSLError", 0, 0, M_boom),
      Exc("Exception", 0, 0, M_ConnectionReset),
      Exc("Exception", 0, 0, M_TLS) }

NoExc == Exc("NoExc", 0, 0, <<>>)

\* float("\\d") and the like: "could not convert string to float"
ValueErrorFloat == Exc("ValueError", 0, 0, <<"f", "l", "o", "a", "t">>)

\* ------------------------------------------------ the "resets in" hint

\* The capture group when `(<number>)s` matches at position j, else <<>>.
\* escaped = TRUE is the pattern text  \\d+  (a backslash, then one or more
\* letters d; re.IGNORECASE lets D match too); escaped = FALSE is  \d+ .
GroupAt(msg, j, escaped) ==
    LET ls == Lower(msg) IN
    IF escaped
    THEN IF j <= Len(ls) /\ ls[j] = "\\"
         THEN LET n == RunLen(ls, j + 1, {"d"}) IN
              IF n >= 1 /\ StartsAt(ls, j + 1 + n, <<"s">>)
              THEN SubSeq(msg, j, j + n) ELSE <<>>
         ELSE <<>>
    ELSE LET n == RunLen(ls, j, Digits) IN
         IF n >= 1 /\ StartsAt(ls, j + n, <<"s">>)
         THEN SubSeq(msg, j, j + n - 1) ELSE <<>>

\* reset(?:s)? in ~?(<number>)s  matched at position i, case-insensitively.
MatchAt(msg, i, escaped) ==
    LET ls == Lower(msg)
        j0 == i + Len(S_reset)
        j1 == IF StartsAt(ls, j0, <<"s">>) THEN j0 + 1 ELSE j0
        j2 == j1 + Len(S_in)
        j3 == IF StartsAt(ls, j2, <<"~">>) THEN j2 + 1 ELSE j2
    IN  IF StartsAt(ls, i, S_reset) /\ StartsAt(ls, j1, S_in)
        THEN GroupAt(msg, j3, escaped)
        ELSE <<>>

\* re.search: group(1) of the leftmost match, <<>> when there is no match.
SearchGroup(msg, escaped) ==
    LET hits == {i \in 1..Len(msg) : MatchAt(msg, i, escaped) # <<>>} IN
    IF hits = {} THEN <<>>
    ELSE MatchAt(msg, CHOOSE i \in hits : \A k \in hits : i <= k, escaped)

RECURSIVE DecimalValue(_)
DecimalValue(s) ==
    IF s = <<>> THEN 0
    ELSE 10 * DecimalValue(SubSeq(s, 1, Len(s) - 1)) + DigitVal(s[Len(s)])

\* float(s) for the strings the pattern can capture: a run of decimal digits
\* converts, anything else raises ValueError.
FloatOf(s) ==
    IF s # <<>> /\ \A i \in 1..Len(s) : s[i] \in Digits
    THEN [ok |-> TRUE, val |-> DecimalValue(s)]
    ELSE [ok |-> FALSE, val |-> 0]

\* re.search(r"reset(?:s)? in ~?(\\d+)s", message, re.IGNORECASE): in a raw
\* string  \\d  is an escaped backslash followed by the letter d.
HintGroup(msg) == SearchGroup(msg, TRUE)

\* random.uniform(0, hi), sampled at both ends and in the middle.
JitterPicks == {0, 1, 2}
Uniform0(hi, u) == (hi * u) \div 2

\* min(1.0, x * 0.1) in milliseconds
JitterCeiling(x) == MinOf(1000, x \div 10)

\* ------------------------------------------------------- ReplicateClient

\* ReplicateClient.__init__: the clamps on the three retry settings.
ReplicateConfig(max_retries, base_delay_s, max_delay_s) ==
    LET base == MaxOf(100, base_delay_s) IN
    [max_retries |-> MaxOf(0, max_retries),
     base_delay |-> base,
     max_delay |-> MaxOf(base, max_delay_s)]

\* The part of _should_retry that looks at the exception alone.
ReplicateRetryable(exc) ==
    LET status == IF exc.status # 0 THEN exc.status ELSE exc.status_code
        message == Lower(exc.msg)
    IN  \/ status = 429
        \/ Contains(message, S_429)
        \/ Contains(message, S_throttl)
        \/ Contains(message, S_rate_limit)

\* ReplicateClient._should_retry
ShouldRetry(exc, att, c) ==
    IF att >= c.max_retries THEN FALSE ELSE ReplicateRetryable(exc)

\* ReplicateClient._retry_delay; u is the draw of random.uniform.  The result
\* is the delay split into its two summands, or the ValueError of float().
ReplicateRetryDelay(exc, att, c, u) ==
    LET group == HintGroup(exc.msg)
        base == MinOf(c.max_delay, c.base_delay * Pow2(att))
    IN  IF group # <<>>
        THEN IF FloatOf(group).ok
             THEN [raised |-> FALSE, hinted |-> TRUE, jitter |-> 0,
                   base |-> MinOf(c.max_delay, FloatOf(group).val * 1000 + 1000)]
             ELSE [raised |-> TRUE, hinted |-> TRUE, jitter |-> 0, base |-> 0]
        ELSE [raised |-> FALSE, hinted |-> FALSE, base |-> base,
              jitter |-> Uniform0(JitterCeiling(base), u)]

\* ------------------------------------------------------ GeminiImageClient

\* The backoff without its ceiling: base_delay * 2 ** attempt, never capped.
GeminiRetryDelayUncapped(att, base_delay, max_delay, u) ==
    LET delay == base_delay * Pow2(att) IN
    [raised |-> FALSE, hinted |-> FALSE, base |-> delay,
     jitter |-> Uniform0(JitterCeiling(delay), u)]

\* gemini_client._retry_delay
GeminiRetryDelay(att, base_delay, max_delay, u) ==
    LET delay == MinOf(max_delay, base_delay * Pow2(att)) IN
    [raised |-> FALSE, hinted |-> FALSE, base |-> delay,
     jitter |-> Uniform0(JitterCeiling(delay), u)]

\* gemini_client._is_retryable_error
IsRetryableError(exc) ==
    IF exc.cls = "SSLError" THEN TRUE
    ELSE LET message == Lower(exc.msg) IN
         \E hint \in {S_ssl, S_tls, S_bad_record_mac, S_eof_occurred, S_connection_reset} :
             Contains(message, hint)

PromptRequired == Exc("ValueError", 0, 0, <<"p", "r", "o", "m", "p", "t">>)
NoImageData == Exc("RuntimeError", 0, 0, <<"n", "o", " ", "i", "m", "a", "g", "e">>)

\* ------------------------------------------------- state of the retry loops

\* Most client objects ever built by one GeminiImageClient in the model.
MaxClientsBuilt == 5

VARIABLES
    obj,           \* which client object exists: "none", "replicate", "gemini"
    phase,         \* "idle", "running" (inside run / generate_images), "done"
    cfg,           \* max_retries, base_delay, max_delay in effect
    attempt,       \* the local `attempt`
    calls,         \* vendor calls made by the current invocation
    sleeps,        \* the time.sleep calls of the current invocation, in order
    lastOutcome,   \* "none", "ok" or "exc": how the last vendor call ended
    lastExc,       \* the exception the last vendor call threw
    allRetryable,  \* every failure so far is retryable for the provider
    result,        \* what the invocation gave its caller
    self_client,   \* GeminiImageClient._client (0 is None)
    client,        \* the local `client` of generate_images
    built          \* genai.Client objects built by this GeminiImageClient

retryVars ==
    <<obj, phase, cfg, attempt, calls, sleeps, lastOutcome, lastExc, allRetryable,
      result, self_client, client, built>>

NoResult == [kind |-> "none", exc |-> NoExc, origin |-> "none"]
Returned == [kind |-> "returned", exc |-> NoExc, origin |-> "loop"]
Raised(exc, origin) == [kind |-> "raised", exc |-> exc, origin |-> origin]

NoConfig == [max_retries |-> 0, base_delay |-> 0, max_delay |-> 0]

RetryInit ==
    /\ obj = "none"
    /\ phase = "idle"
    /\ cfg = NoConfig
    /\ attempt = 0
    /\ calls = 0
    /\ sleeps = <<>>
    /\ lastOutcome = "none"
    /\ lastExc = NoExc
    /\ allRetryable = TRUE
    /\ result = NoResult
    /\ self_client = 0
    /\ client = 0
    /\ built = 0

\* Entering run / generate_images: the locals of a fresh invocation.
FreshInvocation ==
    /\ attempt' = 0
    /\ calls' = 0
    /\ sleeps' = <<>>
    /\ lastOutcome' = "none"
    /\ lastExc' = NoExc
    /\ allRetryable' = TRUE
    /\ result' = NoResult

\* ReplicateClient(max_retries=..., base_delay_s=..., max_delay_s=...)
ReplicateInit ==
    /\ phase # "running"
    /\ \E mr \in (-1)..MaxRetriesArg, b \in {50, 2000}, m \in {1000, 30000} :
           cfg' = ReplicateConfig(mr, b, m)
    /\ obj' = "replicate"
    /\ phase' = "idle"
    /\ FreshInvocation
    /\ UNCHANGED <<self_client, client, built>>

\* ReplicateClient.run up to the loop: attempt = 0
ReplicateRun ==
    /\ obj = "replicate"
    /\ phase \in {"idle", "done"}
    /\ phase' = "running"
    /\ FreshInvocation
    /\ UNCHANGED <<obj, cfg, self_client, client, built>>

\* One turn of the loop of ReplicateClient.run: replicate.run(...) returns or
\* throws, and the except clause re-raises or sleeps and counts the attempt.
ReplicateAttempt ==
    /\ obj = "replicate"
    /\ phase = "running"
    /\ calls' = calls + 1
    /\ \/ /\ lastOutcome' = "ok"
          /\ result' = Returned
          /\ phase' = "done"
          /\ UNCHANGED <<lastExc, allRetryable, sleeps, attempt>>
       \/ \E exc \in VendorExceptions, u \in JitterPicks :
             LET d == ReplicateRetryDelay(exc, attempt, cfg, u) IN
             /\ lastOutcome' = "exc"
             /\ lastExc' = exc
             /\ allRetryable' = (allRetryable /\ ReplicateRetryable(exc))
             /\ IF ~ShouldRetry(exc, attempt, cfg)
                THEN /\ result' = Raised(exc, "loop")
                     /\ phase' = "done"
                     /\ UNCHANGED <<sleeps, attempt>>
                ELSE IF d.raised
                THEN /\ result' = Raised(ValueErrorFloat, "loop")
                     /\ phase' = "done"
                     /\ UNCHANGED <<sleeps, attempt>>
                ELSE /\ sleeps' = Append(sleeps,
                                         [attempt |-> attempt, base |-> d.base,
                                          jitter |-> d.jitter, hinted |-> d.hinted])
                     /\ attempt' = attempt + 1
                     /\ UNCHANGED <<result, phase>>
    /\ UNCHANGED <<obj, cfg, self_client, client, built>>

\* GeminiImageClient(api_key=...): self._client = None
GeminiInit ==
    /\ phase # "running"
    /\ obj' = "gemini"
    /\ phase' = "idle"
    /\ cfg' = NoConfig
    /\ self_client' = 0
    /\ client' = 0
    /\ built' = 0
    /\ FreshInvocation

\* _get_client handing back the client built last where there is one, as if
\* clearing the handle had no effect.
GetClientStale(handle, nbuilt) ==
    IF handle = 0
    THEN [handle |-> MaxOf(nbuilt, 1), built |-> MaxOf(nbuilt, 1)]
    ELSE [handle |-> handle, built |-> nbuilt]

\* GeminiImageClient._get_client: the handle to use and the number of clients
\* built so far, given the current handle.
GetClient(handle, nbuilt) ==
    IF handle = 0
    THEN [handle |-> nbuilt + 1, built |-> nbuilt + 1]
    ELSE [handle |-> handle, built |-> nbuilt]

\* generate_images up to the loop: the prompt check, the first _get_client,
\* the three settings read from the environment, attempt = 0.
GeminiGenerateImages ==
    /\ obj = "gemini"
    /\ phase \in {"idle", "done"}
    /\ attempt' = 0
    /\ calls' = 0
    /\ sleeps' = <<>>
    /\ lastOutcome' = "none"
    /\ lastExc' = NoExc
    /\ allRetryable' = TRUE
    /\ \E prompt \in {"", "p"} :
         IF prompt = ""
         THEN /\ result' = Raised(PromptRequired, "before")
              /\ phase' = "done"
              /\ UNCHANGED <<cfg, self_client, client, built>>
         ELSE \E mr \in 0..MaxRetriesArg, b \in {500, 1000}, m \in {200, 3000, 10000} :
              /\ built + mr + 1 <= MaxClientsBuilt
              /\ cfg' = [max_retries |-> mr, base_delay |-> b, max_delay |-> m]
              /\ self_client' = GetClient(self_client, built).handle
              /\ client' = GetClient(self_client, built).handle
              /\ built' = GetClient(self_client, built).built
              /\ result' = NoResult
              /\ phase' = "running"
    /\ obj' = obj

\* One turn of the loop of generate_images: generate_content returns or
\* throws; the except clause re-raises, or sleeps, counts the attempt, drops
\* the cached client and builds a new one.  After the loop _extract_images
\* runs and an empty list of images is a RuntimeError.
GeminiAttempt ==
    /\ obj = "gemini"
    /\ phase = "running"
    /\ calls' = calls + 1
    /\ \/ /\ lastOutcome' = "ok"
          /\ \E images \in {0, 1} :
                result' = IF images = 0 THEN Raised(NoImageData, "after") ELSE Returned
          /\ phase' = "done"
          /\ UNCHANGED <<lastExc, allRetryable, sleeps, attempt, self_client, client, built>>
       \/ \E exc \in VendorExceptions, u \in JitterPicks :
             LET d == GeminiRetryDelay(attempt, cfg.base_delay, cfg.max_delay, u) IN
             /\ lastOutcome' = "exc"
             /\ lastExc' = exc
             /\ allRetryable' = (allRetryable /\ IsRetryableError(exc))
             /\ IF attempt >= cfg.max_retries \/ ~IsRetryableError(exc)
                THEN /\ result' = Raised(exc, "loop")
                     /\ phase' = "done"
                     /\ UNCHANGED <<sleeps, attempt, self_client, client, built>>
                ELSE /\ sleeps' = Append(sleeps,
                                         [attempt |-> attempt, base |-> d.base,
                                          jitter |-> d.jitter, hinted |-> d.hinted])
                     /\ attempt' = attempt + 1
                     /\ self_client' = GetClient(0, built).handle
                     /\ client' = GetClient(0, built).handle
                     /\ built' = GetClient(0, built).built
                     /\ UNCHANGED <<result, phase>>
    /\ UNCHANGED <<obj, cfg>>

\* ------------------------------------------- properties of the retry loops

\* The provider's predicate, for the client object that is running.
ProviderRetryable(exc) ==
    IF obj = "replicate" THEN ReplicateRetryable(exc) ELSE IsRetryableError(exc)

\* C1: an invocation never makes more than max_retries + 1 vendor calls, and
\* one whose vendor call failed with a retryable error on every attempt has
\* made exactly max_retries + 1 calls and max_retries sleeps when it raises.
C1_RetryCeiling ==
    /\ phase # "idle" => calls <= cfg.max_retries + 1
    /\ (phase = "done" /\ lastOutcome = "exc" /\ allRetryable) =>
           /\ result.kind = "raised"
           /\ calls = cfg.max_retries + 1
           /\ Len(sleeps) = cfg.max_retries

\* C2: what the retry loop raises is the exception of the last vendor
\* attempt, a failure that is not retryable ends the invocation at once (a
\* loop that is still running has only seen retryable failures, and no sleep
\* follows the failure that is raised), and a value is returned only after
\* an attempt that succeeded.
C2_FailurePropagates ==
    /\ (phase = "done" /\ result.kind = "raised" /\ result.origin = "loop") =>
           /\ lastOutcome = "exc"
           /\ result.exc = lastExc
           /\ Len(sleeps) = calls - 1
    /\ (phase = "running" /\ lastOutcome = "exc") => ProviderRetryable(lastExc)
    /\ (phase = "done" /\ lastOutcome = "exc") => result.kind = "raised"
    /\ result.kind = "returned" => lastOutcome = "ok"

\* The number N of a "reset(s) in ~Ns" hint in a message, as a string of
\* decimal digits; <<>> when the message has no such hint.
VendorHint(msg) == SearchGroup(msg, FALSE)

\* C3: when the message of the failure that is being retried carries a
\* "resets in ~Ns" hint, ReplicateClient sleeps min(max_delay_s, N + 1).
C3_HintDelay ==
    (obj = "replicate" /\ phase = "running" /\ lastOutcome = "exc"
        /\ VendorHint(lastExc.msg) # <<>>) =>
        LET s == sleeps[Len(sleeps)] IN
        s.base + s.jitter =
            MinOf(cfg.max_delay, (DecimalValue(VendorHint(lastExc.msg)) + 1) * 1000)

\* C4: without a hint the k-th wait is min(M, B * 2^k) plus a jitter in
\* [0, min(1 s, a tenth of it)]; the waits before jitter never decrease from
\* one attempt to the next and no wait exceeds M plus the jitter ceiling.
C4_BackoffDelays ==
    \A i \in 1..Len(sleeps) :
        LET s == sleeps[i]
            raw == MinOf(cfg.max_delay, cfg.base_delay * Pow2(i - 1))
        IN  ~s.hinted =>
            /\ s.attempt = i - 1
            /\ s.base = raw
            /\ 0 <= s.jitter
            /\ s.jitter <= MinOf(1000, raw \div 10)
            /\ s.base + s.jitter <= cfg.max_delay + MinOf(1000, cfg.max_delay \div 10)
            /\ (i > 1 /\ ~sleeps[i - 1].hinted) => sleeps[i - 1].base <= s.base

\* Two waits of one generate_images call, the second longer before jitter
\* than the first and carrying the largest jitter there is.
C4_Witness ==
    /\ Len(sleeps) >= 2
    /\ ~sleeps[1].hinted /\ ~sleeps[2].hinted
    /\ sleeps[1].base < sleeps[2].base
    /\ sleeps[2].jitter = MinOf(1000, sleeps[2].base \div 10)
    /\ sleeps[2].jitter > 0
    /\ obj = "gemini"

\* One step of a GeminiImageClient, as C13 describes it.
C13_Step ==
    /\ obj = "gemini" /\ phase = "running" =>
           IF Len(sleeps') > Len(sleeps)
           THEN /\ built' = built + 1
                /\ self_client' > built
                /\ self_client' # client
                /\ client' = self_client'
           ELSE /\ phase' = "done"
                /\ self_client' = self_client
                /\ client' = client
                /\ built' = built
    /\ obj = "gemini" /\ obj' = "gemini" /\ phase = "done" /\ phase' = "running"
           /\ result.kind = "raised" /\ result.origin = "loop" =>
               /\ self_client # 0
               /\ self_client' = self_client
               /\ client' = self_client
               /\ built' = built

\* C13: in generate_images a failure that is retried (a sleep is taken)
\* replaces the cached client by one newly built, exactly one, so the next
\* attempt uses a client other than the one that failed; a turn of the loop
\* that raises or returns leaves the handle as it is, and the call that
\* follows a raised failure on the same object starts with that same client
\* and builds none.
C13_ClientInvalidatedOnRetry == [][C13_Step]_retryVars

\* A second call has started on an object whose earlier call retried once:
\* it runs on the client built for that retry, and no third one was built.
C13_Witness ==
    /\ obj = "gemini"
    /\ phase = "running"
    /\ calls = 0
    /\ built = 2
    /\ self_client = 2
    /\ client = 2

\* ---------------------------------------------------------------- kit cache

\* Calls of get_cached_kit the model starts, over all threads.
MaxCacheCalls == 3

Threads == {"t1", "t2"}
CacheKeys == {"ka", "kb"}
Factories == {"fa", "fb"}

\* A Kit instance is known by the order of its construction and the factory
\* that made it; NoKit is None.
Kit(id, by) == [id |-> id, by |-> by]
NoKit == Kit(0, "none")

VARIABLES
    KIT_CACHE,     \* _KIT_CACHE: cache key -> Kit instance (NoKit: no entry)
    t_pc,          \* per thread: "idle", "miss" (kit = factory() is next),
                   \* "made" (the store is next), "done"
    t_key,         \* per thread: the cache_key argument
    t_factory,     \* per thread: the factory argument
    t_kit,         \* per thread: the local `kit`
    t_result,      \* per thread: what the call gave its caller
    t_invoked,     \* per thread: the call has invoked its factory
    factory_calls, \* per key: factory() calls made for the key
    constructed,   \* per key: factory() calls that returned an instance
    stored,        \* per key: the instances written to _KIT_CACHE, in order
    instances,     \* number of Kit instances constructed so far
    started,       \* calls of get_cached_kit started so far
    overlapped     \* some call began while another call was in progress

cacheVars ==
    <<KIT_CACHE, t_pc, t_key, t_factory, t_kit, t_result, t_invoked, factory_calls,
      constructed, stored, instances, started, overlapped>>

KitNone == [kind |-> "none", kit |-> NoKit]
KitReturned(k) == [kind |-> "returned", kit |-> k]
KitRaised == [kind |-> "raised", kit |-> NoKit]

CacheInit ==
    /\ KIT_CACHE = [k \in CacheKeys |-> NoKit]
    /\ t_pc = [t \in Threads |-> "idle"]
    /\ t_key = [t \in Threads |-> "ka"]
    /\ t_factory = [t \in Threads |-> "fa"]
    /\ t_kit = [t \in Threads |-> NoKit]
    /\ t_result = [t \in Threads |-> KitNone]
    /\ t_invoked = [t \in Threads |-> FALSE]
    /\ factory_calls = [k \in CacheKeys |-> 0]
    /\ constructed = [k \in CacheKeys |-> 0]
    /\ stored = [k \in CacheKeys |-> <<>>]
    /\ instances = 0
    /\ started = 0
    /\ overlapped = FALSE

\* _KIT_CACHE.get(cache_key)
CacheGet(cache, key) == cache[key]

\* The store left out: the dictionary is returned as it was.
CacheSetDropped(cache, key, kit) == cache

\* dict.setdefault in place of the assignment: the first entry stays.
CacheSetDefault(cache, key, kit) ==
    IF cache[key] # NoKit THEN cache ELSE [cache EXCEPT ![key] = kit]

\* _KIT_CACHE[cache_key] = kit
CacheSet(cache, key, kit) == [cache EXCEPT ![key] = kit]

\* get_cached_kit, lines 11-13: the lookup, and the return of a hit.
GetCachedKit(t) ==
    /\ t_pc[t] \in {"idle", "done"}
    /\ started < MaxCacheCalls
    /\ started' = started + 1
    /\ overlapped' = (overlapped \/ \E o \in Threads \ {t} : t_pc[o] \in {"miss", "made"})
    /\ \E key \in CacheKeys, factory \in Factories :
         LET cached == CacheGet(KIT_CACHE, key) IN
         /\ t_key' = [t_key EXCEPT ![t] = key]
         /\ t_factory' = [t_factory EXCEPT ![t] = factory]
         /\ t_invoked' = [t_invoked EXCEPT ![t] = FALSE]
         /\ t_kit' = [t_kit EXCEPT ![t] = NoKit]
         /\ IF cached # NoKit
            THEN /\ t_result' = [t_result EXCEPT ![t] = KitReturned(cached)]
                 /\ t_pc' = [t_pc EXCEPT ![t] = "done"]
            ELSE /\ t_result' = [t_result EXCEPT ![t] = KitNone]
                 /\ t_pc' = [t_pc EXCEPT ![t] = "miss"]
    /\ UNCHANGED <<KIT_CACHE, factory_calls, constructed, stored, instances>>

\* get_cached_kit with the store moved before the construction: a placeholder
\* entry is written for the key, and a factory that raises leaves it there.
CallFactoryCachesFailure(t) ==
    /\ t_pc[t] = "miss"
    /\ t_invoked' = [t_invoked EXCEPT ![t] = TRUE]
    /\ factory_calls' = [factory_calls EXCEPT ![t_key[t]] = @ + 1]
    /\ \/ /\ instances' = instances + 1
          /\ constructed' = [constructed EXCEPT ![t_key[t]] = @ + 1]
          /\ t_kit' = [t_kit EXCEPT ![t] = Kit(instances + 1, t_factory[t])]
          /\ t_pc' = [t_pc EXCEPT ![t] = "made"]
          /\ UNCHANGED <<t_result, KIT_CACHE>>
       \/ /\ t_result' = [t_result EXCEPT ![t] = KitRaised]
          /\ t_pc' = [t_pc EXCEPT ![t] = "done"]
          /\ KIT_CACHE' = [KIT_CACHE EXCEPT ![t_key[t]] = Kit(0, "placeholder")]
          /\ UNCHANGED <<instances, constructed, t_kit>>
    /\ UNCHANGED <<t_key, t_factory, stored, started, overlapped>>

\* get_cached_kit, line 14: kit = factory(), which returns a new instance or
\* raises; the exception leaves get_cached_kit.
CallFactory(t) ==
    /\ t_pc[t] = "miss"
    /\ t_invoked' = [t_invoked EXCEPT ![t] = TRUE]
    /\ factory_calls' = [factory_calls EXCEPT ![t_key[t]] = @ + 1]
    /\ \/ /\ instances' = instances + 1
          /\ constructed' = [constructed EXCEPT ![t_key[t]] = @ + 1]
          /\ t_kit' = [t_kit EXCEPT ![t] = Kit(instances + 1, t_factory[t])]
          /\ t_pc' = [t_pc EXCEPT ![t] = "made"]
          /\ UNCHANGED t_result
       \/ /\ t_result' = [t_result EXCEPT ![t] = KitRaised]
          /\ t_pc' = [t_pc EXCEPT ![t] = "done"]
          /\ UNCHANGED <<instances, constructed, t_kit>>
    /\ UNCHANGED <<KIT_CACHE, t_key, t_factory, stored, started, overlapped>>

\* get_cached_kit, lines 15-16: the store and the return of the new instance.
StoreKit(t) ==
    /\ t_pc[t] = "made"
    /\ KIT_CACHE' = CacheSet(KIT_CACHE, t_key[t], t_kit[t])
    /\ stored' = [stored EXCEPT ![t_key[t]] = Append(@, t_kit[t])]
    /\ t_result' = [t_result EXCEPT ![t] = KitReturned(t_kit[t])]
    /\ t_pc' = [t_pc EXCEPT ![t] = "done"]
    /\ UNCHANGED <<t_key, t_factory, t_kit, t_invoked, factory_calls, constructed,
                   instances, started, overlapped>>

\* ------------------------------------------------ properties of the kit cache

\* What get_cached_kit guarantees for key k whatever the factories do, as long
\* as no two calls have overlapped: the entry, once written, is the first
\* instance stored and is never replaced or removed; a call that returned,
\* returned the entry; a call is about to invoke its factory only while no
\* instance was ever constructed for the key.
OneEntryPerKey(k) ==
    /\ Len(stored[k]) <= 1
    /\ KIT_CACHE[k] = (IF stored[k] = <<>> THEN NoKit ELSE stored[k][1])
    /\ \A t \in Threads :
          /\ (t_pc[t] = "done" /\ t_key[t] = k /\ t_result[t].kind = "returned") =>
                 /\ t_result[t].kit # NoKit
                 /\ t_result[t].kit = KIT_CACHE[k]
          /\ (t_pc[t] = "miss" /\ t_key[t] = k) => constructed[k] = 0

\* C5 as stated: in calls made one after another the factory of a key is
\* invoked at most once, the entry stays the instance first stored and every
\* call for the key returns it.
C5_FactoryInvokedOnce ==
    ~overlapped => \A k \in CacheKeys : factory_calls[k] <= 1 /\ OneEntryPerKey(k)

\* C5 amended: in calls made one after another the factory of a key returns an
\* instance at most once (a factory that raised is invoked again by the next
\* call), the entry stays the instance first stored and every call for the
\* key that returns a value returns it.
C5_ConstructedOnce ==
    ~overlapped => \A k \in CacheKeys : constructed[k] <= 1 /\ OneEntryPerKey(k)

\* A later call for a key, passed another factory than the one that built the
\* entry, has returned the entry, after an earlier call's factory raised.
C5_Witness ==
    /\ ~overlapped
    /\ \E t \in Threads :
          /\ t_pc[t] = "done"
          /\ t_result[t].kind = "returned"
          /\ ~t_invoked[t]
          /\ t_result[t].kit.by # t_factory[t]
          /\ t_result[t].kit = KIT_CACHE[t_key[t]]
          /\ factory_calls[t_key[t]] = 2

\* Both threads have finished a call for the same key in which each invoked
\* its factory and got an instance.
BothConstructed(a, b) ==
    /\ a # b
    /\ t_pc[a] = "done" /\ t_pc[b] = "done"
    /\ t_key[a] = t_key[b]
    /\ t_invoked[a] /\ t_invoked[b]
    /\ t_result[a].kind = "returned" /\ t_result[b].kind = "returned"

\* C6: two calls for one key that both missed have invoked the factory twice
\* and returned two different instances, and the cache holds the one that was
\* written last, which is the result of one of the two.
C6_RaceDuplicates ==
    \A a, b \in Threads :
        BothConstructed(a, b) =>
            LET k == t_key[a] IN
            /\ t_result[a].kit # t_result[b].kit
            /\ factory_calls[k] >= 2
            /\ Len(stored[k]) = 2
            /\ KIT_CACHE[k] = stored[k][2]
            /\ KIT_CACHE[k] \in {t_result[a].kit, t_result[b].kit}

\* The race has happened: t1 and t2 hold different instances for one key and
\* the cache kept the one of t2, written after the one of t1.
C6_Witness ==
    /\ BothConstructed("t1", "t2")
    /\ overlapped
    /\ stored[t_key["t1"]] = <<t_result["t1"].kit, t_result["t2"].kit>>
    /\ KIT_CACHE[t_key["t1"]] = t_result["t2"].kit
    /\ t_result["t1"].kit # t_result["t2"].kit

\* One step of get_cached_kit in thread t, as C14 describes it.
C14_StepOf(t) ==
    LET k == t_key'[t]
        raises == t_pc[t] = "miss" /\ t_pc'[t] # "miss" /\ constructed' = constructed
        enters == /\ t_pc[t] \in {"idle", "done"}
                  /\ started' = started + 1
                  /\ t_pc'[t] # t_pc[t] \/ t_result'[t] # t_result[t]
        stores == t_pc[t] = "made" /\ t_pc'[t] = "done"
    IN  /\ raises =>
            /\ t_result'[t] = KitRaised
            /\ t_pc'[t] = "done"
            /\ KIT_CACHE' = KIT_CACHE
            /\ constructed[k] = 0 => KIT_CACHE'[k] = NoKit
        /\ enters /\ factory_calls[k] > 0 /\ constructed[k] = 0 =>
            /\ t_pc'[t] = "miss"
            /\ ~t_invoked'[t]
        /\ stores =>
            /\ t_invoked[t]
            /\ KIT_CACHE'[k] = t_kit[t]
            /\ t_result'[t] = KitReturned(t_kit[t])
            /\ \A other \in CacheKeys \ {k} : KIT_CACHE'[other] = KIT_CACHE[other]

\* C14: a factory that raises ends the get_cached_kit call with the exception
\* and leaves every entry of the cache as it was, none stored for its key; a
\* later call for a key whose factory has only raised so far misses and goes
\* on to invoke its own factory, and when that returns, the new instance is
\* stored under the key and returned.
C14_FactoryFailureNotCached == [][\A t \in Threads : C14_StepOf(t)]_cacheVars

\* Thread t1 called for key ka after the one earlier call for ka had raised,
\* invoked its factory and got back the instance now in the cache.
C14_Witness ==
    /\ ~overlapped
    /\ factory_calls["ka"] = 2
    /\ constructed["ka"] = 1
    /\ t_pc["t1"] = "done"
    /\ t_key["t1"] = "ka"
    /\ t_invoked["t1"]
    /\ KIT_CACHE["ka"] # NoKit
    /\ t_result["t1"] = KitReturned(KIT_CACHE["ka"])

\* ------------------------------------------------ LocalWhisperAdapter

\* Calls of transcribe the model makes.
MaxTranscribeCalls == 2

\* transcriber._suffix_for_media, on the media types the model uses.
SuffixForMedia(media_type) ==
    CASE media_type \in {None, ""} -> ".audio"
      [] media_type \in {"audio/wav", "audio/x-wav"} -> ".wav"
      [] media_type = "audio/mpeg" -> ".mp3"
      [] media_type = "audio/mp4" -> ".mp4"
      [] media_type = "audio/webm" -> ".webm"
      [] media_type = "audio/ogg" -> ".ogg"
      [] OTHER -> ".audio"

\* transcriber._decode_base64 on the payloads the model uses: "QUJD" is plain
\* base64, "data:audio/ogg;base64,QUJD" a data URL that names its type, and
\* "data:,QUJD" one that does not; "QUJ" is a payload b64decode rejects
\* (incorrect padding).
DecodeBase64(raw, explicit_type) ==
    LET isData == raw \in {"data:audio/ogg;base64,QUJD", "data:,QUJD"}
        explicit == IF explicit_type = None THEN "" ELSE explicit_type
        fromHeader == IF raw = "data:audio/ogg;base64,QUJD" THEN "audio/ogg" ELSE ""
        media == IF explicit # "" THEN explicit
                 ELSE IF isData /\ fromHeader # "" THEN fromHeader
                 ELSE "application/octet-stream"
    IN  [ok |-> raw # "QUJ", media_type |-> media]

\* Python truthiness of an optional str field
Truthy(x) == x # None /\ x # ""

UserFile == "/home/u/talk.wav"

AudioInputs ==
    [path : {None, "", UserFile},
     base64 : {None, "QUJD", "data:audio/ogg;base64,QUJD", "QUJ"},
     url : {None, "http://h/a"},
     mediaType : {None, "audio/mpeg"}]

NoAudio == [path |-> None, base64 |-> None, url |-> None, mediaType |-> None]

VARIABLES
    files,         \* the files on disk
    audio,         \* input.audio of the current call
    a_pc,          \* "idle", "try" (inside the try block), "done"
    audio_path,    \* the local audio_path
    cleanup,       \* the local cleanup
    source,        \* which field _materialize_audio used
    made_temp,     \* temporary files the current call created
    temp_count,    \* NamedTemporaryFile names handed out so far
    a_result,      \* "none", "returned", "raised:<what>"
    a_provider,    \* provider of the AiKitError raised, None when there is none
    a_calls        \* calls of transcribe so far

audioVars ==
    <<files, audio, a_pc, audio_path, cleanup, source, made_temp, temp_count,
      a_result, a_provider, a_calls>>

AudioInit ==
    /\ files = {UserFile}
    /\ audio = NoAudio
    /\ a_pc = "idle"
    /\ audio_path = None
    /\ cleanup = FALSE
    /\ source = "none"
    /\ made_temp = {}
    /\ temp_count = 0
    /\ a_result = "none"
    /\ a_provider = None
    /\ a_calls = 0

\* tempfile.NamedTemporaryFile(prefix="ai_kit_audio_", suffix=suffix, delete=False)
TempName(n, suffix) == "ai_kit_audio_" \o ToString(n) \o suffix

\* transcriber._write_temp_audio: io is how the file system answers, "ok",
\* "create_fails" (NamedTemporaryFile raises) or "write_fails" (tmp.write
\* raises and the with block closes the file, which delete=False keeps).
WriteTempAudio(disk, n, media_type, io) ==
    LET name == TempName(n + 1, SuffixForMedia(media_type)) IN
    CASE io = "create_fails" -> [ok |-> FALSE, name |-> None, files |-> disk]
      [] io = "write_fails" -> [ok |-> FALSE, name |-> name, files |-> disk \cup {name}]
      [] OTHER -> [ok |-> TRUE, name |-> name, files |-> disk \cup {name}]

\* _materialize_audio left by an exception: none of the three fields is set
\* (the AiKitError of kind VALIDATION, provider "local"), or the decoding or
\* the fetch of the field named by src raised.
AudioFailure(disk, src, error, provider) ==
    [ok |-> FALSE, path |-> None, cleanup |-> FALSE, files |-> disk,
     source |-> src, error |-> error, provider |-> provider, made |-> {}]

\* return _write_temp_audio(data, media_type), True
ViaTempAudio(disk, n, io, src, media_type) ==
    LET w == WriteTempAudio(disk, n, media_type, io) IN
    [ok |-> w.ok, path |-> IF w.ok THEN w.name ELSE None, cleanup |-> w.ok,
     files |-> w.files, source |-> src, error |-> IF w.ok THEN "" ELSE "OSError",
     provider |-> None, made |-> w.files \ disk]

\* _materialize_audio with the tests for base64 and url in the other order.
MaterializeAudioUrlFirst(a, disk, n, net, io) ==
    IF Truthy(a.path)
    THEN [ok |-> TRUE, path |-> a.path, cleanup |-> FALSE, files |-> disk,
          source |-> "path", error |-> "", provider |-> None, made |-> {}]
    ELSE IF Truthy(a.url)
    THEN IF net = "fails"
         THEN AudioFailure(disk, "url", "URLError", None)
         ELSE ViaTempAudio(disk, n, io, "url",
                           IF Truthy(a.mediaType) THEN a.mediaType
                           ELSE IF net = "ok" THEN "audio/webm" ELSE None)
    ELSE IF Truthy(a.base64)
    THEN LET d == DecodeBase64(a.base64, a.mediaType) IN
         IF ~d.ok
         THEN AudioFailure(disk, "base64", "binascii.Error", None)
         ELSE ViaTempAudio(disk, n, io, "base64", d.media_type)
    ELSE AudioFailure(disk, "none", "VALIDATION", "local")

\* transcriber._materialize_audio: net is how urlopen answers ("ok" with a
\* content-type header, "no_header", "fails"), io how the file system does.
MaterializeAudio(a, disk, n, net, io) ==
    IF Truthy(a.path)
    THEN [ok |-> TRUE, path |-> a.path, cleanup |-> FALSE, files |-> disk,
          source |-> "path", error |-> "", provider |-> None, made |-> {}]
    ELSE IF Truthy(a.base64)
    THEN LET d == DecodeBase64(a.base64, a.mediaType) IN
         IF ~d.ok
         THEN AudioFailure(disk, "base64", "binascii.Error", None)
         ELSE ViaTempAudio(disk, n, io, "base64", d.media_type)
    ELSE IF Truthy(a.url)
    THEN IF net = "fails"
         THEN AudioFailure(disk, "url", "URLError", None)
         ELSE ViaTempAudio(disk, n, io, "url",
                           IF Truthy(a.mediaType) THEN a.mediaType
                           ELSE IF net = "ok" THEN "audio/webm" ELSE None)
    ELSE AudioFailure(disk, "none", "VALIDATION", "local")

\* LocalWhisperAdapter.transcribe up to the try statement: the model is
\* loaded and the audio materialized; an exception of either leaves transcribe.
Transcribe ==
    /\ a_pc \in {"idle", "done"}
    /\ a_calls < MaxTranscribeCalls
    /\ a_calls' = a_calls + 1
    /\ \E a \in AudioInputs, loaded \in BOOLEAN,
          net \in {"ok", "no_header", "fails"},
          io \in {"ok", "create_fails", "write_fails"} :
         LET m == MaterializeAudio(a, files, temp_count, net, io) IN
         /\ audio' = a
         /\ IF ~loaded
            THEN /\ a_result' = "raised:load_model"
                 /\ a_pc' = "done"
                 /\ audio_path' = None
                 /\ cleanup' = FALSE
                 /\ source' = "none"
                 /\ made_temp' = {}
                 /\ a_provider' = None
                 /\ UNCHANGED <<files, temp_count>>
            ELSE /\ files' = m.files
                 /\ made_temp' = m.made
                 /\ temp_count' = temp_count + Cardinality(m.made)
                 /\ source' = m.source
                 /\ audio_path' = m.path
                 /\ cleanup' = m.cleanup
                 /\ a_result' = IF m.ok THEN "none" ELSE "raised:" \o m.error
                 /\ a_provider' = m.provider
                 /\ a_pc' = IF m.ok THEN "try" ELSE "done"

\* The try statement of transcribe: model.transcribe returns or raises, the
\* finally clause unlinks audio_path when cleanup is set, and transcribe
\* returns the output or lets the exception through.
TranscribeModel ==
    /\ a_pc = "try"
    /\ \E ok \in BOOLEAN :
          a_result' = IF ok THEN "returned" ELSE "raised:model"
    /\ files' = IF cleanup THEN files \ {audio_path} ELSE files
    /\ a_pc' = "done"
    /\ UNCHANGED <<audio, audio_path, cleanup, source, made_temp, temp_count,
                   a_provider, a_calls>>

\* C7: when transcribe has returned or raised, no temporary file the call
\* created is left on disk, and the caller's own file is still there.
C7_TempFilesCleaned ==
    a_pc = "done" =>
        /\ made_temp \cap files = {}
        /\ UserFile \in files

\* C15: _materialize_audio uses the first field that is set (a non-empty
\* str) in the order path, base64, url, and only that one.  Returning by a
\* set path it hands back that path, writes nothing and asks for no cleanup;
\* returning by base64 or url it hands back the one temporary file it wrote
\* and asks for cleanup.  It raises the VALIDATION error of provider "local"
\* exactly when none of the three is set, writing nothing.
C15_SourcePrecedence ==
    LET set(field) == field \notin {None, ""}
        first == IF set(audio.path) THEN "path"
                 ELSE IF set(audio.base64) THEN "base64"
                 ELSE IF set(audio.url) THEN "url"
                 ELSE "none"
        ran == a_calls > 0 /\ a_result # "raised:load_model"
        returned == a_result \in {"none", "returned", "raised:model"}
    IN  ran =>
            /\ source = first
            /\ returned =>
                /\ first = "path" =>
                       audio_path = audio.path /\ ~cleanup /\ made_temp = {}
                /\ first \in {"base64", "url"} =>
                       /\ cleanup
                       /\ made_temp = {audio_path}
                       /\ audio_path # audio.path
                       /\ a_pc = "try" => audio_path \in files
            /\ first = "path" => returned
            /\ first = "none" <=> (a_result = "raised:VALIDATION" /\ a_provider = "local")
            /\ first = "none" => made_temp = {} /\ ~cleanup
            /\ a_provider = "local" => a_result = "raised:VALIDATION"

\* path is unset (the empty str), base64 and url are both set: the payload
\* was decoded into a temporary file, and cleanup is requested.
C15_Witness ==
    /\ a_pc = "try"
    /\ audio.path = ""
    /\ audio.base64 = "QUJD"
    /\ audio.url = "http://h/a"
    /\ source = "base64"
    /\ cleanup
    /\ made_temp = {audio_path}
    /\ audio_path \in files

\* ------------------------------------------------------ stream synthesis

\* Longest output text, largest chunk size and most tool calls tried.
MaxTextLen == 3
MaxChunkSize == 3
MaxToolCalls == 2

RECURSIVE SeqsUpTo(_, _)
\* The sequences over S of length at most n.
SeqsUpTo(S, n) ==
    IF n = 0 THEN {<<>>}
    ELSE LET shorter == SeqsUpTo(S, n - 1) IN
         shorter \cup {Append(q, x) : q \in shorter, x \in S}

RECURSIVE Range(_, _, _)
\* list(range(start, stop, step)) for step > 0
Range(start, stop, step) ==
    IF start >= stop THEN <<>> ELSE <<start>> \o Range(start + step, stop, step)

\* text[lo:hi] for 0 <= lo <= hi
Slice(text, lo, hi) == SubSeq(text, lo + 1, MinOf(hi, Len(text)))

\* The slices that stop short of a trailing partial one: range(0, len - size + 1, size).
ChunkTextWhole(text, chunk_size) ==
    IF text = <<>> THEN <<>>
    ELSE IF chunk_size <= 0 THEN <<text>>
    ELSE LET starts == Range(0, Len(text) - chunk_size + 1, chunk_size) IN
         [k \in 1..Len(starts) |-> Slice(text, starts[k], starts[k] + chunk_size)]

\* testing._chunk_text
ChunkText(text, chunk_size) ==
    IF text = <<>> THEN <<>>
    ELSE IF chunk_size <= 0 THEN <<text>>
    ELSE LET starts == Range(0, Len(text), chunk_size) IN
         [k \in 1..Len(starts) |-> Slice(text, starts[k], starts[k] + chunk_size)]

Delta(part) == [type |-> "delta", textDelta |-> part]
ToolCall(call) == [type |-> "tool_call", call |-> call]
MessageEnd(usage, finishReason) ==
    [type |-> "message_end", usage |-> usage, finishReason |-> finishReason]

\* A GenerateOutput.  An absent text or toolCalls (None) is the empty
\* sequence: build_stream_chunks tests both for truth only.
GenerateOutput(text, toolCalls, finishReason) ==
    [text |-> text, toolCalls |-> toolCalls, usage |-> "usage",
     finishReason |-> finishReason]

\* testing.build_stream_chunks
BuildStreamChunks(output, chunk_size) ==
    LET parts == ChunkText(output.text, chunk_size)
        deltas == [k \in 1..Len(parts) |-> Delta(parts[k])]
        tools == [k \in 1..Len(output.toolCalls) |-> ToolCall(output.toolCalls[k])]
    IN  deltas \o tools \o <<MessageEnd(output.usage, output.finishReason)>>

VARIABLES
    s_pc,          \* "input": the arguments are chosen; "done": the list is built
    s_output,      \* the output argument
    s_chunk_size,  \* the chunk_size argument
    s_chunks       \* the list build_stream_chunks returned

streamVars == <<s_pc, s_output, s_chunk_size, s_chunks>>

\* No call of build_stream_chunks is under way.
StreamIdle ==
    /\ s_pc = "done"
    /\ s_output = GenerateOutput(<<>>, <<>>, "stop")
    /\ s_chunk_size = 0
    /\ s_chunks = BuildStreamChunks(s_output, s_chunk_size)

StreamInit ==
    /\ s_pc = "input"
    /\ s_output \in {GenerateOutput(t, c, f) :
                        t \in SeqsUpTo({"a", "b"}, MaxTextLen),
                        c \in SeqsUpTo({"call1", "call2"}, MaxToolCalls),
                        f \in {"stop", "tool_calls"}}
    /\ s_chunk_size \in (-1)..MaxChunkSize
    /\ s_chunks = <<>>

\* build_stream_chunks(output, chunk_size)
CallBuildStreamChunks ==
    /\ s_pc = "input"
    /\ s_chunks' = BuildStreamChunks(s_output, s_chunk_size)
    /\ s_pc' = "done"
    /\ UNCHANGED <<s_output, s_chunk_size>>

RECURSIVE Flatten(_)
\* The concatenation of a sequence of sequences.
Flatten(ss) == IF ss = <<>> THEN <<>> ELSE Head(ss) \o Flatten(Tail(ss))

\* ceil(l / c) for c > 0
CeilDiv(l, c) == CHOOSE n \in 0..l : n * c >= l /\ (n = 0 \/ (n - 1) * c < l)

\* C8: for a chunk size C > 0 and a text of length L the list is ceil(L / C)
\* delta chunks, each of C characters but the last, which has from 1 to C,
\* that concatenate to the text; then one tool_call chunk per tool call, in
\* order; then one message_end chunk, which ends the list.
C8_StreamShape ==
    (s_pc = "done" /\ s_chunk_size > 0) =>
        LET L == Len(s_output.text)
            C == s_chunk_size
            n == CeilDiv(L, C)
            T == Len(s_output.toolCalls)
        IN  /\ Len(s_chunks) = n + T + 1
            /\ \A k \in 1..n :
                  /\ s_chunks[k].type = "delta"
                  /\ Len(s_chunks[k].textDelta) <= C
                  /\ Len(s_chunks[k].textDelta) >= 1
                  /\ k < n => Len(s_chunks[k].textDelta) = C
            /\ Flatten([k \in 1..n |-> s_chunks[k].textDelta]) = s_output.text
            /\ \A k \in 1..T : s_chunks[n + k] = ToolCall(s_output.toolCalls[k])
            /\ s_chunks[n + T + 1].type = "message_end"
            /\ \A k \in 1..(n + T) : s_chunks[k].type # "message_end"

\* A text of three characters cut in chunks of two, with two tool calls: two
\* delta chunks, the second shorter, two tool_call chunks and the end.
C8_Witness ==
    /\ s_pc = "done"
    /\ s_chunk_size = 2
    /\ s_output.text = <<"a", "b", "a">>
    /\ s_output.toolCalls = <<"call2", "call1">>
    /\ Len(s_chunks) = 5
    /\ s_chunks[2] = Delta(<<"a">>)
    /\ s_chunks[3] = ToolCall("call2")

\* ---------------------------------------------------------- FixtureAdapter

\* Calls made on one FixtureAdapter, and the chunk size it is built with.
MaxFixtureCalls == 3
FixtureChunkSize == 2

\* An Optional value is a sequence of at most one element: <<>> is None.
Unset == <<>>
Some(v) == <<v>>

GenerateInputs ==
    {[provider |-> "openai", model |-> "gpt", prompt |-> "hi"],
     [provider |-> "openai", model |-> "gpt", prompt |-> "yo"]}
ImageInputs ==
    {[provider |-> "replicate", model |-> "flux", prompt |-> "cat"],
     [provider |-> "replicate", model |-> "flux", prompt |-> "dog"]}
MeshInputs ==
    {[provider |-> "meshy", model |-> "mesh-1", prompt |-> "cup"],
     [provider |-> "meshy", model |-> "mesh-1", prompt |-> "jar"]}

\* The operations, and the type each makes its fixture key of.
Operations == {"generate", "stream_generate", "generate_image", "generate_mesh"}
KindOf(op) ==
    CASE op = "generate" -> "generate"
      [] op = "stream_generate" -> "stream"
      [] op = "generate_image" -> "image"
      [] op = "generate_mesh" -> "mesh"

\* testing.fixture_key: "{type}:{provider}:{model}:{digest}", the digest
\* being 12 hex digits of the SHA-256 of the canonical JSON of type, provider,
\* model and input.  The digest is kept as the data it is the hash of, so two
\* keys are equal exactly when type and input are.
FixtureKey(kind, input) ==
    <<kind, input.provider, input.model,
      [sha256 |-> [type |-> kind, provider |-> input.provider,
                   model |-> input.model, input |-> input]]>>

\* The message without the key.
MissingFixtureErrorNoKey(provider, kind, input) ==
    [kind |-> "VALIDATION",
     message |-> [format |-> "Fixture for {kind} is missing.", kind |-> kind,
                  keys |-> <<>>],
     provider |-> provider]

\* FixtureAdapter._missing_fixture_error.  A message is its format string
\* with the kind and the keys formatted into it.
MissingFixtureError(provider, kind, input) ==
    [kind |-> "VALIDATION",
     message |-> [format |-> "Fixture for {kind} is missing (key: {key}).",
                  kind |-> kind, keys |-> <<FixtureKey(kind, input)>>],
     provider |-> provider]

NoError ==
    [kind |-> "none", message |-> [format |-> "", kind |-> "", keys |-> <<>>],
     provider |-> "none"]

\* FixtureAdapter._require_fixture: the entry, or the error raised
RequireFixture(provider, fx, kind, input) ==
    LET key == FixtureKey(kind, input)
        entry == IF key \in DOMAIN fx THEN fx[key] ELSE Unset
    IN  IF entry = Unset
        THEN [found |-> FALSE, entry |-> Unset,
              error |-> [kind |-> "VALIDATION",
                         message |-> [format |-> "Fixture not found (key: {key}).",
                                      kind |-> "", keys |-> <<key>>],
                         provider |-> provider]]
        ELSE [found |-> TRUE, entry |-> entry, error |-> NoError]

FixtureEntry(generate, stream, image, mesh) ==
    [generate |-> generate, stream |-> stream, image |-> image, mesh |-> mesh]

CannedOutput == GenerateOutput(<<"a", "b", "a">>, <<"call1">>, "stop")
CannedStream == <<Delta(<<"x">>), MessageEnd("usage", "stop")>>

\* What a test registers for the first generate input, under its generate
\* key and under its stream key alike; <<>> registers nothing.
TextEntries ==
    {Unset,
     Some(FixtureEntry(Unset, Unset, Unset, Unset)),
     Some(FixtureEntry(Some(CannedOutput), Unset, Unset, Unset)),
     Some(FixtureEntry(Unset, Some(CannedStream), Unset, Unset)),
     Some(FixtureEntry(Unset, Some(<<>>), Unset, Unset)),
     Some(FixtureEntry(Some(CannedOutput), Some(CannedStream), Unset, Unset))}

\* What a test registers for the first image and the first mesh input.
MediaEntries ==
    {Unset,
     Some(FixtureEntry(Some(CannedOutput), Unset, Unset, Unset)),
     Some(FixtureEntry(Unset, Unset, Some("png"), Unset)),
     Some(FixtureEntry(Unset, Unset, Some("png"), Some("glb")))}

FirstOf(S) == CHOOSE x \in S : x.prompt \in {"hi", "cat", "cup"}

\* The fixtures dictionary: one key per registered entry.
FixturesWith(text, media) ==
    LET keys == (IF text = Unset THEN {}
                 ELSE {FixtureKey("generate", FirstOf(GenerateInputs)),
                       FixtureKey("stream", FirstOf(GenerateInputs))})
                \cup
                (IF media = Unset THEN {}
                 ELSE {FixtureKey("image", FirstOf(ImageInputs)),
                       FixtureKey("mesh", FirstOf(MeshInputs))})
    IN  [k \in keys |-> IF k[1] \in {"generate", "stream"} THEN text ELSE media]

VARIABLES
    fixtures,      \* FixtureAdapter.fixtures
    registered,    \* the dictionary the adapter was constructed with
    f_provider,    \* FixtureAdapter.provider
    f_calls,       \* FixtureAdapter.calls: one list per operation
    f_log,         \* every call made on the adapter, <<operation, input>>, in order
    f_last         \* how the last call ended

fixtureVars == <<fixtures, registered, f_provider, f_calls, f_log, f_last>>

NoCall == [op |-> "none", input |-> Unset, outcome |-> "none", error |-> Unset,
           value |-> Unset]

\* FixtureCalls(): four empty lists
FixtureCalls == [op \in Operations |-> <<>>]

\* FixtureAdapter.__init__ with an empty dictionary
FixtureIdle ==
    /\ fixtures = FixturesWith(Unset, Unset)
    /\ registered = fixtures
    /\ f_provider = "fixture"
    /\ f_calls = FixtureCalls
    /\ f_log = <<>>
    /\ f_last = NoCall

\* FixtureAdapter.__init__ with each dictionary the bounds allow
FixtureInit ==
    /\ \E text \in TextEntries, media \in MediaEntries :
           fixtures = FixturesWith(text, media)
    /\ registered = fixtures
    /\ f_provider = "fixture"
    /\ f_calls = FixtureCalls
    /\ f_log = <<>>
    /\ f_last = NoCall

\* Every operation appends to the stream_generate list.
RecordCallMisfiled(history, op, input) ==
    [history EXCEPT !["stream_generate"] = Append(@, input)]

\* self.calls.<operation>.append(input)
RecordCall(history, op, input) == [history EXCEPT ![op] = Append(@, input)]

RaisedCall(op, input, error) ==
    [op |-> op, input |-> Some(input), outcome |-> "raised", error |-> Some(error),
     value |-> Unset]
ReturnedCall(op, input, value) ==
    [op |-> op, input |-> Some(input), outcome |-> "returned", error |-> Unset,
     value |-> Some(value)]

\* The three operations that return one slot of the entry: generate,
\* generate_image and generate_mesh, where slot is the field they read.
SlotOf(op) ==
    CASE op = "generate" -> "generate"
      [] op = "generate_image" -> "image"
      [] op = "generate_mesh" -> "mesh"

SlotLookup(op, input) ==
    LET r == RequireFixture(f_provider, fixtures, KindOf(op), input) IN
    IF ~r.found THEN RaisedCall(op, input, r.error)
    ELSE IF r.entry[1][SlotOf(op)] = Unset
    THEN RaisedCall(op, input, MissingFixtureError(f_provider, KindOf(op), input))
    ELSE ReturnedCall(op, input, r.entry[1][SlotOf(op)][1])

\* FixtureAdapter.stream_generate after the call is recorded
StreamLookup(input) ==
    LET r == RequireFixture(f_provider, fixtures, "stream", input) IN
    IF ~r.found THEN RaisedCall("stream_generate", input, r.error)
    ELSE IF r.entry[1].stream # Unset
    THEN ReturnedCall("stream_generate", input, r.entry[1].stream[1])
    ELSE IF r.entry[1].generate = Unset
    THEN RaisedCall("stream_generate", input,
                    MissingFixtureError(f_provider, "stream", input))
    ELSE ReturnedCall("stream_generate", input,
                      BuildStreamChunks(r.entry[1].generate[1], FixtureChunkSize))

\* One call of an operation: the call is recorded, then looked up.
FixtureCall(op, input, last) ==
    /\ Len(f_log) < MaxFixtureCalls
    /\ f_calls' = RecordCall(f_calls, op, input)
    /\ f_log' = Append(f_log, <<op, input>>)
    /\ f_last' = last
    /\ UNCHANGED <<fixtures, registered, f_provider>>

\* FixtureAdapter.generate
Generate ==
    \E input \in GenerateInputs :
        FixtureCall("generate", input, SlotLookup("generate", input))

\* FixtureAdapter.stream_generate
StreamGenerate ==
    \E input \in GenerateInputs :
        FixtureCall("stream_generate", input, StreamLookup(input))

\* FixtureAdapter.generate_image
GenerateImage ==
    \E input \in ImageInputs :
        FixtureCall("generate_image", input, SlotLookup("generate_image", input))

\* FixtureAdapter.generate_mesh
GenerateMesh ==
    \E input \in MeshInputs :
        FixtureCall("generate_mesh", input, SlotLookup("generate_mesh", input))

\* ------------------------------------------- properties of the FixtureAdapter

\* fixtures.get(key)
Registered(key) == IF key \in DOMAIN fixtures THEN fixtures[key] ELSE Unset

\* The slot an operation answers from is unset in entry e.
SlotUnset(op, e) ==
    CASE op = "generate" -> e.generate = Unset
      [] op = "stream_generate" -> e.stream = Unset /\ e.generate = Unset
      [] op = "generate_image" -> e.image = Unset
      [] op = "generate_mesh" -> e.mesh = Unset

\* The message of an error has the key among the values formatted into it.
Names(message, key) == \E i \in 1..Len(message.keys) : message.keys[i] = key

\* C9: a call whose derived key has no entry, or whose entry has the slot of
\* the operation unset (for stream_generate: the stream and the generate
\* slot both), raises a VALIDATION error whose message holds the derived key,
\* and returns nothing.
C9_MissingFixtureRaises ==
    f_last.op # "none" =>
        LET op == f_last.op
            key == FixtureKey(KindOf(op), f_last.input[1])
            entry == Registered(key)
        IN  (entry = Unset \/ SlotUnset(op, entry[1])) =>
                /\ f_last.outcome = "raised"
                /\ f_last.value = Unset
                /\ f_last.error[1].kind = "VALIDATION"
                /\ Names(f_last.error[1].message, key)

\* stream_generate found an entry with neither a stream nor a generate
\* output and raised the error that names the stream key.
C9_Witness ==
    /\ f_last.op = "stream_generate"
    /\ Registered(FixtureKey("stream", f_last.input[1])) # Unset
    /\ SlotUnset("stream_generate", Registered(FixtureKey("stream", f_last.input[1]))[1])
    /\ f_last.outcome = "raised"
    /\ Names(f_last.error[1].message, FixtureKey("stream", f_last.input[1]))

RECURSIVE InputsTo(_, _)
\* The inputs of the calls of operation op in a log, in order.
InputsTo(op, log) ==
    IF log = <<>> THEN <<>>
    ELSE (IF Head(log)[1] = op THEN <<Head(log)[2]>> ELSE <<>>) \o InputsTo(op, Tail(log))

\* C10: the history of each operation is the inputs of the calls of that
\* operation, in call order, whether the call returned or raised, and the
\* fixtures are the ones the adapter was built with.
C10_CallsRecorded ==
    /\ \A op \in Operations : f_calls[op] = InputsTo(op, f_log)
    /\ fixtures = registered

\* Three calls, two of them of one operation and one that raised: the two
\* inputs are in the history of that operation in call order.
C10_Witness ==
    /\ Len(f_log) = 3
    /\ Len(f_calls["generate_image"]) = 2
    /\ f_calls["generate_image"][1] # f_calls["generate_image"][2]
    /\ Len(f_calls["generate"]) = 1
    /\ f_last.op = "generate_image"
    /\ f_last.outcome = "raised"
    /\ f_last.input = Some(f_calls["generate_image"][2])

\* ------------------------------------------- ReplicateClient output coercion

\* Longest list of outputs a vendor call returns in the model.
MaxOutputs == 2

S_http == <<"h", "t", "t", "p">>
U_http == S_http \o <<":", "/", "/", "h", "/", "a">>
U_https == S_http \o <<"s", ":", "/", "/", "h", "/", "b">>
U_ftp == <<"f", "t", "p", ":", "/", "/", "h", "/", "a">>
U_HTTP == <<"H", "T", "T", "P", ":", "/", "/", "h", "/", "a">>
B_png == <<"P", "N", "G">>
B_raw == <<"R", "A", "W">>

\* str.startswith
StartsWith(s, lit) == StartsAt(s, 1, lit)

\* A value replicate.run can hand back.  type is the class isinstance sees
\* ("NoneType", "bytes", "bytearray", "FileOutput", "str", "dict", "int",
\* "list", "tuple"), read says whether the value has a callable read attribute,
\* data is the content of a bytes value or of a readable one, text the
\* characters of a str, url the "url" entry of a dict (<<>> when the key is
\* missing, else one record saying whether the entry is a str, and its
\* characters), items the elements of a list or tuple.
Value(type, read, data, text, url, items) ==
    [type |-> type, read |-> read, data |-> data, text |-> text, url |-> url,
     items |-> items]

V_None == Value("NoneType", FALSE, <<>>, <<>>, <<>>, <<>>)
V_Int == Value("int", FALSE, <<>>, <<>>, <<>>, <<>>)
V_Bytes(data) == Value("bytes", FALSE, data, <<>>, <<>>, <<>>)
V_Bytearray(data) == Value("bytearray", FALSE, data, <<>>, <<>>, <<>>)
V_FileOutput(data) == Value("FileOutput", TRUE, data, <<>>, <<>>, <<>>)
V_Str(s) == Value("str", FALSE, <<>>, s, <<>>, <<>>)
\* an instance of a str subclass that has a read method
V_ReadableStr(s, data) == Value("str", TRUE, data, s, <<>>, <<>>)
V_Dict(url) == Value("dict", FALSE, <<>>, <<>>, url, <<>>)
V_Mapping(s) == V_Dict(<<[is_str |-> TRUE, text |-> s]>>)
V_MappingNonStr == V_Dict(<<[is_str |-> FALSE, text |-> <<>>]>>)
V_List(items) == Value("list", FALSE, <<>>, <<>>, <<>>, items)
V_Tuple(items) == Value("tuple", FALSE, <<>>, <<>>, <<>>, items)

VendorScalars ==
    {V_None, V_Int, V_Bytes(B_png), V_Bytearray(B_png), V_FileOutput(B_raw),
     V_Str(U_http), V_Str(U_https), V_Str(U_ftp), V_Str(U_HTTP), V_Str(<<>>),
     V_ReadableStr(U_http, B_raw),
     V_Dict(<<>>), V_MappingNonStr,
     V_Mapping(U_http), V_Mapping(U_ftp), V_Mapping(U_HTTP), V_Mapping(<<>>)}

VendorOutputs ==
    VendorScalars
        \cup {V_List(items) : items \in SeqsUpTo(VendorScalars, MaxOutputs)}
        \cup {V_Tuple(<<>>)}

\* How the outside answers the read or the download made for one element:
\* with the content, or with an exception.
Answers == {"ok", "fails"}

\* The outcome of a coercion: kind is "returned" or "raised"; shape tells a
\* bytes result ("bytes", one element in values) from a list of them
\* ("list"); error is the exception raised; effects lists the reads and
\* downloads made, in order.
Blob(data, effects) ==
    [kind |-> "returned", shape |-> "bytes", values |-> <<data>>, error |-> "",
     effects |-> effects]

Failed(error, effects) ==
    [kind |-> "raised", shape |-> "bytes", values |-> <<>>, error |-> error,
     effects |-> effects]

NoOutputError == "RuntimeError: Replicate returned None output"
UnsupportedTypeError(out) == "TypeError: Unsupported Replicate output type: " \o out.type

Effect(op, target) == [op |-> op, target |-> target]

\* What the server holds at a URL.
ContentAt(url) == <<"@">> \o url

\* replicate_client._is_file_output
IsFileOutput(out) == out.read

\* replicate_client._read_file_output: obj.read() returns the content or raises.
ReadFileOutput(out, answer) ==
    IF answer = "ok" THEN Blob(out.data, <<Effect("read", out.data)>>)
    ELSE Failed("read raised", <<Effect("read", out.data)>>)

\* replicate_client._download_url: requests.get and raise_for_status raise, or
\* the body is returned.
DownloadUrl(url, answer) ==
    IF answer = "ok" THEN Blob(ContentAt(url), <<Effect("download", url)>>)
    ELSE Failed("requests raised", <<Effect("download", url)>>)

\* _coerce_single_file without its first test: None falls through to the end.
CoerceSingleFileNoNullCase(out, answer) ==
    IF out.type = "bytes" THEN Blob(out.data, <<>>)
    ELSE IF IsFileOutput(out) THEN ReadFileOutput(out, answer)
    ELSE IF out.type = "str" /\ StartsWith(out.text, S_http)
    THEN DownloadUrl(out.text, answer)
    ELSE IF out.type = "dict" /\ out.url # <<>> /\ out.url[1].is_str
    THEN DownloadUrl(out.url[1].text, answer)
    ELSE Failed(UnsupportedTypeError(out), <<>>)

\* _coerce_single_file without its test for a dict: a mapping is unsupported.
CoerceSingleFileNoMapping(out, answer) ==
    IF out.type = "NoneType" THEN Failed(NoOutputError, <<>>)
    ELSE IF out.type = "bytes" THEN Blob(out.data, <<>>)
    ELSE IF IsFileOutput(out) THEN ReadFileOutput(out, answer)
    ELSE IF out.type = "str" /\ StartsWith(out.text, S_http)
    THEN DownloadUrl(out.text, answer)
    ELSE Failed(UnsupportedTypeError(out), <<>>)

\* ReplicateClient._coerce_single_file
CoerceSingleFile(out, answer) ==
    IF out.type = "NoneType" THEN Failed(NoOutputError, <<>>)
    ELSE IF out.type = "bytes" THEN Blob(out.data, <<>>)
    ELSE IF IsFileOutput(out) THEN ReadFileOutput(out, answer)
    ELSE IF out.type = "str" /\ StartsWith(out.text, S_http)
    THEN DownloadUrl(out.text, answer)
    ELSE IF out.type = "dict" /\ out.url # <<>> /\ out.url[1].is_str
    THEN DownloadUrl(out.url[1].text, answer)
    ELSE Failed(UnsupportedTypeError(out), <<>>)

RECURSIVE CoerceEach(_, _, _, _)
\* [self._coerce_single_file(x) for x in out]: element i is coerced with the
\* answer net[i]; the first element that raises ends the comprehension.
CoerceEach(items, net, i, acc) ==
    IF i > Len(items) THEN acc
    ELSE LET r == CoerceSingleFile(items[i], net[i]) IN
         IF r.kind = "raised"
         THEN [r EXCEPT !.effects = acc.effects \o r.effects]
         ELSE CoerceEach(items, net, i + 1,
                         [acc EXCEPT !.values = acc.values \o r.values,
                                     !.effects = acc.effects \o r.effects])

\* The last two statements of multiview_zero123plusplus.
MultiviewOutput(out, net) ==
    IF out.type \in {"list", "tuple"}
    THEN CoerceEach(out.items, net, 1,
                    [kind |-> "returned", shape |-> "list", values |-> <<>>,
                     error |-> "", effects |-> <<>>])
    ELSE CoerceSingleFile(out, net[1])

VARIABLES
    c_pc,        \* "idle", "done"
    c_op,        \* the method called
    c_out,       \* what self.run returned
    c_net,       \* the answers to the reads and downloads, per element
    c_result     \* the outcome of the method

coerceVars == <<c_pc, c_op, c_out, c_net, c_result>>

NoCoercion ==
    [kind |-> "none", shape |-> "bytes", values |-> <<>>, error |-> "",
     effects |-> <<>>]

CoerceInit ==
    /\ c_pc = "idle"
    /\ c_op = "none"
    /\ c_out = V_None
    /\ c_net = [i \in 1..MaxOutputs |-> "ok"]
    /\ c_result = NoCoercion

\* ReplicateClient.remove_background once self.run has returned out (run
\* raising is the subject of ReplicateRun and ReplicateAttempt).
RemoveBackground ==
    /\ c_pc = "idle"
    /\ \E out \in VendorOutputs, net \in [1..MaxOutputs -> Answers] :
         /\ c_out' = out
         /\ c_net' = net
         /\ c_result' = CoerceSingleFile(out, net[1])
    /\ c_op' = "remove_background"
    /\ c_pc' = "done"

\* ReplicateClient.multiview_zero123plusplus once self.run has returned out.
MultiviewZero123PlusPlus ==
    /\ c_pc = "idle"
    /\ \E out \in VendorOutputs, net \in [1..MaxOutputs -> Answers] :
         /\ c_out' = out
         /\ c_net' = net
         /\ c_result' = MultiviewOutput(out, net)
    /\ c_op' = "multiview_zero123plusplus"
    /\ c_pc' = "done"

\* C11: _coerce_single_file resolves a value by the first case that matches,
\* in the order null, bytes, readable handle, str beginning with "http",
\* mapping with a str "url" entry, anything else: null raises the no-output
\* error, bytes come back unchanged, a handle is read, the str or the url
\* entry is downloaded, and anything else raises the unsupported-type error;
\* and multiview_zero123plusplus returns an empty list for an empty sequence
\* where it raises the no-output error for a null result.
C11_CoercionOrder ==
    LET v == c_out
        r == c_result
        null == v.type = "NoneType"
        bytes == v.type = "bytes"
        handle == v.read
        http == v.type = "str" /\ Len(v.text) >= 4 /\ SubSeq(v.text, 1, 4) = S_http
        mapping == v.type = "dict" /\ Len(v.url) = 1 /\ v.url[1].is_str
        Quiet == r.effects = <<>>
        Gave(data) == r.kind = "returned" /\ r.shape = "bytes" /\ r.values = <<data>>
        Threw(error) == r.kind = "raised" /\ r.error = error
        Did(op, target, data) ==
            /\ r.effects = <<Effect(op, target)>>
            /\ IF c_net[1] = "ok" THEN Gave(data) ELSE r.kind = "raised"
    IN  /\ c_pc = "done" /\ c_op = "remove_background" =>
            /\ null => Threw(NoOutputError) /\ Quiet
            /\ ~null /\ bytes => Gave(v.data) /\ Quiet
            /\ ~null /\ ~bytes /\ handle => Did("read", v.data, v.data)
            /\ ~null /\ ~bytes /\ ~handle /\ http =>
                   Did("download", v.text, ContentAt(v.text))
            /\ ~null /\ ~bytes /\ ~handle /\ ~http /\ mapping =>
                   Did("download", v.url[1].text, ContentAt(v.url[1].text))
            /\ ~null /\ ~bytes /\ ~handle /\ ~http /\ ~mapping =>
                   /\ Threw("TypeError: Unsupported Replicate output type: " \o v.type)
                   /\ Quiet
                   /\ r.error # NoOutputError
        /\ c_pc = "done" /\ c_op = "multiview_zero123plusplus" =>
            /\ v.type \in {"list", "tuple"} /\ v.items = <<>> =>
                   /\ r.kind = "returned" /\ r.shape = "list" /\ r.values = <<>>
                   /\ Quiet
            /\ null => Threw(NoOutputError) /\ Quiet

\* The order has decided: a str that begins with "http" and can be read was
\* read, not downloaded.
C11_Witness ==
    /\ c_pc = "done"
    /\ c_op = "remove_background"
    /\ c_out = V_ReadableStr(U_http, B_raw)
    /\ c_result = Blob(B_raw, <<Effect("read", B_raw)>>)

\* C12 as stated: for every str s, a dict whose "url" entry is s is coerced
\* to the outcome the bare str s is coerced to under the same answer.
C12_MappingLikeString ==
    c_pc = "done" /\ c_op = "remove_background" /\ c_out.type = "dict"
        /\ ~c_out.read /\ Len(c_out.url) = 1 /\ c_out.url[1].is_str =>
            c_result = CoerceSingleFile(V_Str(c_out.url[1].text), c_net[1])

\* C12 amended: the same for every str s that begins with "http".
C12_MappingLikeHttpString ==
    c_pc = "done" /\ c_op = "remove_background" /\ c_out.type = "dict"
        /\ ~c_out.read /\ Len(c_out.url) = 1 /\ c_out.url[1].is_str
        /\ StartsWith(c_out.url[1].text, S_http) =>
            c_result = CoerceSingleFile(V_Str(c_out.url[1].text), c_net[1])

\* {"url": "http://h/a"} has been coerced, and the download gave the content.
C12_Witness ==
    /\ c_pc = "done"
    /\ c_op = "remove_background"
    /\ c_out = V_Mapping(U_http)
    /\ c_result = Blob(ContentAt(U_http), <<Effect("download", U_http)>>)

\* ------------------------------------------------------------ specifications

vars == <<retryVars, cacheVars, audioVars, streamVars, fixtureVars, coerceVars>>

Init ==
    /\ RetryInit
    /\ CacheInit
    /\ AudioInit
    /\ StreamIdle
    /\ FixtureIdle
    /\ CoerceInit

\* The retry loops of the two clients, one invocation at a time.
NextRetry ==
    \/ ReplicateInit /\ UNCHANGED <<cacheVars, audioVars, streamVars, fixtureVars, coerceVars>>
    \/ ReplicateRun /\ UNCHANGED <<cacheVars, audioVars, streamVars, fixtureVars, coerceVars>>
    \/ ReplicateAttempt /\ UNCHANGED <<cacheVars, audioVars, streamVars, fixtureVars, coerceVars>>
    \/ GeminiInit /\ UNCHANGED <<cacheVars, audioVars, streamVars, fixtureVars, coerceVars>>
    \/ GeminiGenerateImages /\ UNCHANGED <<cacheVars, audioVars, streamVars, fixtureVars, coerceVars>>
    \/ GeminiAttempt /\ UNCHANGED <<cacheVars, audioVars, streamVars, fixtureVars, coerceVars>>

SpecRetry == Init /\ [][NextRetry]_vars

\* Two threads calling get_cached_kit, interleaved at its three statements.
NextCache ==
    \E t \in Threads :
        \/ GetCachedKit(t) /\ UNCHANGED <<retryVars, audioVars, streamVars, fixtureVars, coerceVars>>
        \/ CallFactory(t) /\ UNCHANGED <<retryVars, audioVars, streamVars, fixtureVars, coerceVars>>
        \/ StoreKit(t) /\ UNCHANGED <<retryVars, audioVars, streamVars, fixtureVars, coerceVars>>

SpecCache == Init /\ [][NextCache]_vars

\* LocalWhisperAdapter.transcribe, call after call on one file system.
NextAudio ==
    \/ Transcribe /\ UNCHANGED <<retryVars, cacheVars, streamVars, fixtureVars, coerceVars>>
    \/ TranscribeModel /\ UNCHANGED <<retryVars, cacheVars, streamVars, fixtureVars, coerceVars>>

SpecAudio == Init /\ [][NextAudio]_vars

\* build_stream_chunks applied to every output and chunk size in the bounds.
InitStream ==
    /\ RetryInit
    /\ CacheInit
    /\ AudioInit
    /\ StreamInit
    /\ FixtureIdle
    /\ CoerceInit

NextStream ==
    CallBuildStreamChunks /\ UNCHANGED <<retryVars, cacheVars, audioVars, fixtureVars, coerceVars>>

SpecStream == InitStream /\ [][NextStream]_vars

\* One FixtureAdapter, built with each dictionary of fixtures in the bounds,
\* and the calls made on it.
InitFixture ==
    /\ RetryInit
    /\ CacheInit
    /\ AudioInit
    /\ StreamIdle
    /\ FixtureInit
    /\ CoerceInit

NextFixture ==
    \/ Generate /\ UNCHANGED <<retryVars, cacheVars, audioVars, streamVars, coerceVars>>
    \/ StreamGenerate /\ UNCHANGED <<retryVars, cacheVars, audioVars, streamVars, coerceVars>>
    \/ GenerateImage /\ UNCHANGED <<retryVars, cacheVars, audioVars, streamVars, coerceVars>>
    \/ GenerateMesh /\ UNCHANGED <<retryVars, cacheVars, audioVars, streamVars, coerceVars>>

SpecFixture == InitFixture /\ [][NextFixture]_vars

\* The two methods that coerce what self.run returned, on every vendor value
\* and every answer of the outside in the bounds.
NextCoerce ==
    \/ RemoveBackground
           /\ UNCHANGED <<retryVars, cacheVars, audioVars, streamVars, fixtureVars>>
    \/ MultiviewZero123PlusPlus
           /\ UNCHANGED <<retryVars, cacheVars, audioVars, streamVars, fixtureVars>>

SpecCoerce == Init /\ [][NextCoerce]_vars

====
